---- MODULE Spec2Model ----
(***************************************************************************)
(* Model of pkg/graph/graph.go: the Graph builder that turns Knative        *)
(* resources into a dot graph document.                                     *)
(*                                                                          *)
(* Strings are sequences of tokens.  A token is an indivisible piece of     *)
(* text ("eventing.knative.dev", "a", "A", "/", ...); "/" is always a token *)
(* of its own, so strings.TrimSuffix(s, "/") and the splitting of an        *)
(* apiVersion at "/" are computed on the token sequence, and                *)
(* strings.ToLower is computed token by token.                              *)
(*                                                                          *)
(* A *dot.Node is the index of the node in gnodes, the list of every node   *)
(* made by dot.NewNode; the nil pointer is 0.  A node's parent is 0 when it *)
(* was added to the top-level graph, k > 0 when it was added to the k-th    *)
(* subgraph attached to the graph, and -1 when it was never added.          *)
(***************************************************************************)
EXTENDS Integers, Sequences, FiniteSets, TLC

VARIABLES nodes, subgraphs, dnsToKey, edgeCount, rainbowEdge,
          gnodes, gedges, gsubs, panicked, calls

vars == <<nodes, subgraphs, dnsToKey, edgeCount, rainbowEdge,
          gnodes, gedges, gsubs, panicked, calls>>

\* Number of add operations of one build, and longest step list of a sequence.
MaxOps == 3
MaxSteps == 2

\* len(colors): the palette newEdge cycles through.
NumColors == 3

----------------------------------------------------------------------------
\* Strings

S(tok) == <<tok>>
Slash == <<"/">>
EmptyStr == <<>>

Lower(tok) ==
  CASE tok = "A" -> "a"
    [] tok = "B" -> "b"
    [] tok = "Broker" -> "broker"
    [] tok = "Channel" -> "channel"
    [] tok = "Service" -> "service"
    [] tok = "Sequence" -> "sequence"
    [] tok = "CronJobSource" -> "cronjobsource"
    [] tok = "InMemoryChannel" -> "inmemorychannel"
    [] OTHER -> tok

ToLower(s) == [i \in 1..Len(s) |-> Lower(s[i])]

TrimSuffix(s) ==
  IF Len(s) > 0 /\ s[Len(s)] = "/" THEN SubSeq(s, 1, Len(s) - 1) ELSE s

Digit == <<"0", "1", "2", "3", "4", "5", "6", "7", "8", "9">>

RECURSIVE Itoa(_)
Itoa(n) == IF n < 10 THEN <<Digit[n + 1]>>
           ELSE Itoa(n \div 10) \o <<Digit[(n % 10) + 1]>>

\* schema.FromAPIVersionAndKind: the apiVersion is split at its one "/";
\* without a "/" the group is empty, with more than one the parse fails and
\* group and version are both empty.
SlashAt(s) == {i \in 1..Len(s) : s[i] = "/"}

GroupOf(apiVersion) ==
  IF Cardinality(SlashAt(apiVersion)) = 1
  THEN SubSeq(apiVersion, 1, (CHOOSE i \in SlashAt(apiVersion) : TRUE) - 1)
  ELSE EmptyStr

VersionOf(apiVersion) ==
  CASE Cardinality(SlashAt(apiVersion)) = 0 -> apiVersion
    [] Cardinality(SlashAt(apiVersion)) = 1 ->
         SubSeq(apiVersion, (CHOOSE i \in SlashAt(apiVersion) : TRUE) + 1, Len(apiVersion))
    [] OTHER -> EmptyStr

----------------------------------------------------------------------------
\* Keys

key(group, version, kind, name) ==
  ToLower(group \o Slash \o version \o Slash \o kind \o Slash \o name)

eventingKey(kind, name) == key(S("eventing.knative.dev"), S("v1alpha1"), kind, name)
messagingKey(kind, name) == key(S("messaging.knative.dev"), S("v1alpha1"), kind, name)
servingKey(kind, name) == key(S("serving.knative.dev"), S("v1beta1"), kind, name)

channelKey(name) == eventingKey(S("channel"), name)
subscriptionKey(name) == eventingKey(S("subscription"), name)
brokerKey(name) == eventingKey(S("broker"), name)
triggerKey(name) == eventingKey(S("trigger"), name)
sequenceKey(name) == messagingKey(S("sequence"), name)
sequenceStepKey(name, step) ==
  messagingKey(S("sequencestep"), name \o S("-") \o Itoa(step))

gvkKey(apiVersion, kind, name) ==
  ToLower(GroupOf(apiVersion) \o Slash \o VersionOf(apiVersion) \o Slash
          \o kind \o Slash \o name)

uriKey(uri) == ToLower(S("uri") \o Slash \o uri)

refKey(apiVersion, kind, name) ==
  ToLower(apiVersion \o Slash \o kind \o Slash \o name)

UnknownKey == S("?")

----------------------------------------------------------------------------
\* The builder as one value, so that helpers can be composed.

G == [nodes |-> nodes, subgraphs |-> subgraphs, dnsToKey |-> dnsToKey,
      edgeCount |-> edgeCount, rainbowEdge |-> rainbowEdge,
      gnodes |-> gnodes, gedges |-> gedges, gsubs |-> gsubs]

Put(m, k, v) == [x \in (DOMAIN m) \cup {k} |-> IF x = k THEN v ELSE m[x]]

EmptyMap == [x \in {} |-> 0]

\* dot.NewNode followed (or not) by AddNode on the graph or on a subgraph.
NewNode(g, name, parent) ==
  [g EXCEPT !.gnodes = Append(g.gnodes, [name |-> name, parent |-> parent])]

LastNode(g) == Len(g.gnodes)

\* dot.NewEdge and the attributes set on it.
Edge(src, dst, dir, lhead, color) ==
  [src |-> src, dst |-> dst, dir |-> dir, lhead |-> lhead, color |-> color]

NoColor == 0 - 1

\* Faulty variant: the edge is put in front of the list.
AddEdge_Front(g, e) == [g EXCEPT !.gedges = <<e>> \o g.gedges]

\* Graph.AddEdge of the dot library: the edge goes to the end of the list.
AddEdge(g, e) == [g EXCEPT !.gedges = Append(g.gedges, e)]

\* Graph.newEdge: the colour is the palette index edgeCount % len(colors).
newEdge(g, src, dst, dir) ==
  IF g.rainbowEdge
  THEN [g |-> [g EXCEPT !.edgeCount = g.edgeCount + 1],
        e |-> Edge(src, dst, dir, EmptyStr, g.edgeCount % NumColors)]
  ELSE [g |-> g, e |-> Edge(src, dst, dir, EmptyStr, NoColor)]

\* dot.NewSubgraph("cluster_<len(g.subgraphs)>") ... g.AddSubgraph.
ClusterName(g) == S("cluster_") \o Itoa(Cardinality(DOMAIN g.subgraphs))

AddSubgraph(g, name, label) ==
  [g EXCEPT !.gsubs = Append(g.gsubs, [name |-> name, label |-> label])]

----------------------------------------------------------------------------
\* Resources with a status address: AddChannel, AddBroker.

\* Faulty variant: the address is indexed but the node is not registered.
AddressableStep_NoNode(g, k, nodeName, label, dns) ==
  LET sgIdx == Len(g.gsubs) + 1
      g1 == NewNode(g, nodeName, sgIdx)
      g2 == [g1 EXCEPT !.dnsToKey = Put(g1.dnsToKey, dns, k)]
      g3 == AddSubgraph(g2, ClusterName(g2), label)
  IN [g3 EXCEPT !.subgraphs = Put(g3.subgraphs, k, sgIdx)]

AddressableStep(g, k, nodeName, label, dns) ==
  LET sgIdx == Len(g.gsubs) + 1
      g1 == NewNode(g, nodeName, sgIdx)
      g2 == [g1 EXCEPT !.nodes = Put(g1.nodes, k, LastNode(g1)),
                       !.dnsToKey = Put(g1.dnsToKey, dns, k)]
      g3 == AddSubgraph(g2, ClusterName(g2), label)
  IN [g3 EXCEPT !.subgraphs = Put(g3.subgraphs, k, sgIdx)]

doAddChannel(g, channel) ==
  LET ck == channelKey(channel.Name)
      dns == TrimSuffix(channel.Address)
  IN AddressableStep(g, ck, S("Channel ") \o channel.Name,
                     S("Channel ") \o channel.Name \o S("\n") \o dns, dns)

\* Faulty variant: a node already registered under the broker key (a
\* placeholder, say) is taken over as the broker's node.
doAddBroker_Merge(g, broker) ==
  LET bk == brokerKey(broker.Name)
      dns == TrimSuffix(broker.Address)
      g1 == AddSubgraph([g EXCEPT !.dnsToKey = Put(g.dnsToKey, dns, bk)],
                        ClusterName(g), S("Broker ") \o broker.Name \o S("\n") \o dns)
  IN IF bk \in DOMAIN g.nodes
     THEN [g1 EXCEPT !.subgraphs = Put(g1.subgraphs, bk, Len(g1.gsubs))]
     ELSE AddressableStep(g, bk, S("Broker ") \o dns,
                          S("Broker ") \o broker.Name \o S("\n") \o dns, dns)

doAddBroker(g, broker) ==
  LET bk == brokerKey(broker.Name)
      dns == TrimSuffix(broker.Address)
  IN AddressableStep(g, bk, S("Broker ") \o dns,
                     S("Broker ") \o broker.Name \o S("\n") \o dns, dns)

----------------------------------------------------------------------------
\* Shared resolution helpers.  Each returns the builder and the node found.

SubscriberKey(subscriber) ==
  IF subscriber.IsNil THEN UnknownKey
  ELSE IF subscriber.HasURI THEN uriKey(subscriber.URI)
  ELSE IF subscriber.HasRef
       THEN refKey(subscriber.APIVersion, subscriber.Kind, subscriber.Name)
       ELSE UnknownKey

SubscriberLabel(subscriber) ==
  IF subscriber.IsNil THEN S("?")
  ELSE IF subscriber.HasURI THEN subscriber.URI
  ELSE IF subscriber.HasRef
       THEN subscriber.Name \o S("\nKind: ") \o subscriber.Kind \o S("\n")
            \o subscriber.APIVersion
       ELSE S("?")

\* Faulty variant: the node index is not consulted.
getOrCreateSubscriber_NoLookup(g, subscriber) ==
  LET g1 == NewNode(g, SubscriberLabel(subscriber), 0)
  IN [g |-> [g1 EXCEPT !.nodes = Put(g1.nodes, SubscriberKey(subscriber), LastNode(g1))],
      node |-> LastNode(g1)]

\* Faulty variant: the node made on a miss is not registered.
getOrCreateSubscriber_NoRegister(g, subscriber) ==
  LET k == SubscriberKey(subscriber)
  IN IF k \in DOMAIN g.nodes
     THEN [g |-> g, node |-> g.nodes[k]]
     ELSE [g |-> NewNode(g, SubscriberLabel(subscriber), 0), node |-> Len(g.gnodes) + 1]

\* Faulty variant: an absent subscriber gets a placeholder of its own on
\* every call.
getOrCreateSubscriber_FreshUnknown(g, subscriber) ==
  LET k == SubscriberKey(subscriber)
  IN IF k \in DOMAIN g.nodes /\ k # UnknownKey
     THEN [g |-> g, node |-> g.nodes[k]]
     ELSE LET g1 == NewNode(g, SubscriberLabel(subscriber), 0)
          IN [g |-> [g1 EXCEPT !.nodes = Put(g1.nodes, k, LastNode(g1))],
              node |-> LastNode(g1)]

\* Faulty variant: an absent subscriber resolves to no node.
getOrCreateSubscriber_NilOnAbsent(g, subscriber) ==
  LET k == SubscriberKey(subscriber)
  IN IF k = UnknownKey THEN [g |-> g, node |-> 0]
     ELSE IF k \in DOMAIN g.nodes
     THEN [g |-> g, node |-> g.nodes[k]]
     ELSE LET g1 == NewNode(g, SubscriberLabel(subscriber), 0)
          IN [g |-> [g1 EXCEPT !.nodes = Put(g1.nodes, k, LastNode(g1))],
              node |-> LastNode(g1)]

getOrCreateSubscriber(g, subscriber) ==
  LET k == SubscriberKey(subscriber)
  IN IF k \in DOMAIN g.nodes
     THEN [g |-> g, node |-> g.nodes[k]]
     ELSE LET g1 == NewNode(g, SubscriberLabel(subscriber), 0)
          IN [g |-> [g1 EXCEPT !.nodes = Put(g1.nodes, k, LastNode(g1))],
              node |-> LastNode(g1)]

\* Faulty variant: on a miss the "Unknown Channel" node is added to the
\* graph and returned.
getOrCreateReply_Placeholder(g, rep) ==
  IF ~rep.IsNil /\ rep.HasChannel
  THEN LET ck == channelKey(rep.ChannelName)
       IN IF ck \notin DOMAIN g.nodes
          THEN [g |-> NewNode(g, S("Unknown Channel ") \o rep.ChannelName, 0),
                node |-> Len(g.gnodes) + 1]
          ELSE [g |-> g, node |-> g.nodes[ck]]
  ELSE [g |-> g, node |-> 0]

\* On a miss the "Unknown Channel" node is made but neither added to the
\* graph nor returned.
getOrCreateReply(g, rep) ==
  IF ~rep.IsNil /\ rep.HasChannel
  THEN LET ck == channelKey(rep.ChannelName)
       IN IF ck \notin DOMAIN g.nodes
          THEN [g |-> NewNode(g, S("Unknown Channel ") \o rep.ChannelName, 0 - 1),
                node |-> 0]
          ELSE [g |-> g, node |-> g.nodes[ck]]
  ELSE [g |-> g, node |-> 0]

\* On a miss key stays "", and g.nodes[""] is the nil node.
getOrCreateSink(g, uri0) ==
  LET uri == TrimSuffix(uri0)
  IN IF uri \notin DOMAIN g.dnsToKey
     THEN [g |-> NewNode(g, S("UnknownSink ") \o uri, 0),
           node |-> IF EmptyStr \in DOMAIN g.nodes THEN g.nodes[EmptyStr] ELSE 0]
     ELSE [g |-> g,
           node |-> IF g.dnsToKey[uri] \in DOMAIN g.nodes
                    THEN g.nodes[g.dnsToKey[uri]] ELSE 0]

\* Faulty variant: the trailing slash is kept.
sinkDNS_NoTrim(source) == IF source.HasSink THEN source.SinkURI ELSE EmptyStr

sinkDNS(source) == IF source.HasSink THEN TrimSuffix(source.SinkURI) ELSE EmptyStr

----------------------------------------------------------------------------
\* AddSubscription

\* Faulty variant: the cluster is looked up under the channel key of the
\* referenced name, whatever group, version and kind the reference carries.
doAddSubscription_ByName(g, subscription) ==
  LET sk == subscriptionKey(subscription.Name)
      ck == channelKey(subscription.ChannelName)
      g1 == NewNode(g, S("Subscription ") \o subscription.Name,
                    IF ck \in DOMAIN g.subgraphs THEN g.subgraphs[ck] ELSE 0)
      sn == LastNode(g1)
      g2 == [g1 EXCEPT !.nodes = Put(g1.nodes, sk, sn)]
      r1 == getOrCreateSubscriber(g2, subscription.Subscriber)
      g3 == IF r1.node # 0
            THEN AddEdge(r1.g, Edge(sn, r1.node, "both", EmptyStr, NoColor))
            ELSE r1.g
      r2 == getOrCreateReply(g3, subscription.Reply)
      ne == newEdge(r2.g, sn, r2.node, "forward")
  IN IF r2.node # 0 THEN AddEdge(ne.g, ne.e) ELSE r2.g

doAddSubscription(g, subscription) ==
  LET sk == subscriptionKey(subscription.Name)
      ck == gvkKey(subscription.ChannelAPIVersion, subscription.ChannelKind,
                   subscription.ChannelName)
      g1 == NewNode(g, S("Subscription ") \o subscription.Name,
                    IF ck \in DOMAIN g.subgraphs THEN g.subgraphs[ck] ELSE 0)
      sn == LastNode(g1)
      g2 == [g1 EXCEPT !.nodes = Put(g1.nodes, sk, sn)]
      r1 == getOrCreateSubscriber(g2, subscription.Subscriber)
      g3 == IF r1.node # 0
            THEN AddEdge(r1.g, Edge(sn, r1.node, "both", EmptyStr, NoColor))
            ELSE r1.g
      r2 == getOrCreateReply(g3, subscription.Reply)
      ne == newEdge(r2.g, sn, r2.node, "forward")
  IN IF r2.node # 0 THEN AddEdge(ne.g, ne.e) ELSE r2.g

----------------------------------------------------------------------------
\* AddSource

\* Faulty variant: the UnknownSink node is remembered under its address, so
\* the next source with the same sink reuses it.
doAddSource_Remember(g, source) ==
  LET k == gvkKey(source.APIVersion, source.Kind, source.Name)
      g1 == NewNode(g, S("Source ") \o source.Name \o S("\nKind: ") \o source.Kind
                       \o S("\n") \o source.APIVersion, 0)
      sn == LastNode(g1)
      g2 == [g1 EXCEPT !.nodes = Put(g1.nodes, k, sn)]
      sink == sinkDNS(source)
      hit == sink \in DOMAIN g2.dnsToKey
      bk == IF hit THEN g2.dnsToKey[sink] ELSE EmptyStr
      found == hit /\ bk \in DOMAIN g2.nodes
      uk == S("unknownsink") \o Slash \o sink
      g3 == IF found THEN g2
            ELSE LET h == NewNode(g2, S("UnknownSink ") \o sink, 0)
                 IN [h EXCEPT !.nodes = Put(h.nodes, uk, LastNode(h)),
                              !.dnsToKey = Put(h.dnsToKey, sink, uk)]
      bn == IF found THEN g2.nodes[bk] ELSE LastNode(g3)
      lhead == IF bk \in DOMAIN g3.subgraphs
               THEN g3.gsubs[g3.subgraphs[bk]].name ELSE EmptyStr
  IN IF sink # EmptyStr
     THEN AddEdge(g3, Edge(sn, bn, "", lhead, NoColor))
     ELSE g2

doAddSource(g, source) ==
  LET k == gvkKey(source.APIVersion, source.Kind, source.Name)
      g1 == NewNode(g, S("Source ") \o source.Name \o S("\nKind: ") \o source.Kind
                       \o S("\n") \o source.APIVersion, 0)
      sn == LastNode(g1)
      g2 == [g1 EXCEPT !.nodes = Put(g1.nodes, k, sn)]
      sink == sinkDNS(source)
      hit == sink \in DOMAIN g2.dnsToKey
      bk == IF hit THEN g2.dnsToKey[sink] ELSE EmptyStr
      found == hit /\ bk \in DOMAIN g2.nodes
      g3 == IF found THEN g2 ELSE NewNode(g2, S("UnknownSink ") \o sink, 0)
      bn == IF found THEN g2.nodes[bk] ELSE LastNode(g3)
      lhead == IF bk \in DOMAIN g3.subgraphs
               THEN g3.gsubs[g3.subgraphs[bk]].name ELSE EmptyStr
  IN IF sink # EmptyStr
     THEN AddEdge(g3, Edge(sn, bn, "", lhead, NoColor))
     ELSE g2

----------------------------------------------------------------------------
\* AddTrigger

\* Faulty variant: the UnknownBroker node is not registered under the broker key.
doAddTrigger_NoRegister(g, trigger) ==
  LET bk == brokerKey(trigger.Broker)
      g1 == IF bk \in DOMAIN g.nodes THEN g
            ELSE NewNode(g, S("UnknownBroker ") \o trigger.Broker, 0)
      g2 == NewNode(g1, S("Trigger ") \o trigger.Name,
                    IF bk \in DOMAIN g1.subgraphs THEN g1.subgraphs[bk] ELSE 0)
      tn == LastNode(g2)
      g3 == [g2 EXCEPT !.nodes = Put(g2.nodes, triggerKey(trigger.Name), tn)]
      r == getOrCreateSubscriber(g3, trigger.Subscriber)
  IN IF r.node # 0
     THEN AddEdge(r.g, Edge(tn, r.node, "both", EmptyStr, NoColor))
     ELSE r.g

doAddTrigger(g, trigger) ==
  LET bk == brokerKey(trigger.Broker)
      g1 == IF bk \in DOMAIN g.nodes THEN g
            ELSE LET h == NewNode(g, S("UnknownBroker ") \o trigger.Broker, 0)
                 IN [h EXCEPT !.nodes = Put(h.nodes, bk, LastNode(h))]
      g2 == NewNode(g1, S("Trigger ") \o trigger.Name,
                    IF bk \in DOMAIN g1.subgraphs THEN g1.subgraphs[bk] ELSE 0)
      tn == LastNode(g2)
      g3 == [g2 EXCEPT !.nodes = Put(g2.nodes, triggerKey(trigger.Name), tn)]
      r == getOrCreateSubscriber(g3, trigger.Subscriber)
  IN IF r.node # 0
     THEN AddEdge(r.g, Edge(tn, r.node, "both", EmptyStr, NoColor))
     ELSE r.g

----------------------------------------------------------------------------
\* AddKnService

RECURSIVE EnvLoop(_, _, _)
EnvLoop(g, svc, env) ==
  IF env = <<>> THEN g
  ELSE IF Head(env).Name \in {"SINK", "TARGET"}
       THEN LET r == getOrCreateSink(g, Head(env).Value)
            IN EnvLoop(AddEdge(r.g, Edge(svc, r.node, "", EmptyStr, NoColor)),
                       svc, Tail(env))
       ELSE EnvLoop(g, svc, Tail(env))

\* Faulty variant: every call makes and registers a new service node.
doAddKnService_Fresh(g, service) ==
  LET k == servingKey(service.Kind, service.Name)
      h == NewNode(g, service.Name \o S("\nKind: ") \o service.Kind
                      \o S("\n") \o service.APIVersion, 0)
      g1 == [h EXCEPT !.nodes = Put(h.nodes, k, LastNode(h))]
      svc == g1.nodes[k]
  IN IF Len(service.Containers) = 0
     THEN [g |-> g1, panic |-> TRUE]
     ELSE [g |-> EnvLoop(g1, svc, service.Containers[1]), panic |-> FALSE]

\* Containers[0] of an empty container list is an index out of range: the
\* call panics after the service node has been made.
doAddKnService(g, service) ==
  LET k == servingKey(service.Kind, service.Name)
      g1 == IF k \in DOMAIN g.nodes THEN g
            ELSE LET h == NewNode(g, service.Name \o S("\nKind: ") \o service.Kind
                                     \o S("\n") \o service.APIVersion, 0)
                 IN [h EXCEPT !.nodes = Put(h.nodes, k, LastNode(h))]
      svc == g1.nodes[k]
  IN IF Len(service.Containers) = 0
     THEN [g |-> g1, panic |-> TRUE]
     ELSE [g |-> EnvLoop(g1, svc, service.Containers[1]), panic |-> FALSE]

----------------------------------------------------------------------------
\* AddSequence

\* Faulty variant: previousNode is not advanced, every step hangs off Start.
RECURSIVE StepLoop_FromStart(_, _, _, _, _, _)
StepLoop_FromStart(g, name, sgIdx, steps, num, previousNode) ==
  IF num >= Len(steps) THEN [g |-> g, previousNode |-> previousNode]
  ELSE LET stepKey == sequenceStepKey(name, num)
           g1 == NewNode(g, stepKey, sgIdx)
           stepn == LastNode(g1)
           g2 == [g1 EXCEPT !.nodes = Put(g1.nodes, stepKey, stepn)]
           r == getOrCreateSubscriber(g2, steps[num + 1])
           g3 == IF r.node # 0
                 THEN AddEdge(r.g, Edge(stepn, r.node, "both", EmptyStr, NoColor))
                 ELSE r.g
           g4 == AddEdge(g3, Edge(previousNode, stepn, "", EmptyStr, NoColor))
       IN StepLoop_FromStart(g4, name, sgIdx, steps, num + 1, previousNode)

RECURSIVE StepLoop(_, _, _, _, _, _)
StepLoop(g, name, sgIdx, steps, num, previousNode) ==
  IF num >= Len(steps) THEN [g |-> g, previousNode |-> previousNode]
  ELSE LET stepKey == sequenceStepKey(name, num)
           g1 == NewNode(g, stepKey, sgIdx)
           stepn == LastNode(g1)
           g2 == [g1 EXCEPT !.nodes = Put(g1.nodes, stepKey, stepn)]
           r == getOrCreateSubscriber(g2, steps[num + 1])
           g3 == IF r.node # 0
                 THEN AddEdge(r.g, Edge(stepn, r.node, "both", EmptyStr, NoColor))
                 ELSE r.g
           g4 == AddEdge(g3, Edge(previousNode, stepn, "", EmptyStr, NoColor))
       IN StepLoop(g4, name, sgIdx, steps, num + 1, stepn)

\* Faulty variant: an unregistered reply target gets a placeholder node and
\* an edge, as the reply of a subscription would.
SequenceReply_Placeholder(g, seq, dns, sgIdx, previousNode) ==
  IF ~seq.HasReply THEN g
  ELSE LET g1 == NewNode(g, S("Reply ") \o dns, sgIdx)
           replyn == LastNode(g1)
           g2 == AddEdge(g1, Edge(previousNode, replyn, "", EmptyStr, NoColor))
           rk == gvkKey(seq.ReplyAPIVersion, seq.ReplyKind, seq.ReplyName)
           g3 == NewNode(g2, S("Unknown Channel ") \o seq.ReplyName, 0)
       IN IF rk \in DOMAIN g2.nodes
          THEN AddEdge(g2, Edge(replyn, g2.nodes[rk], "", EmptyStr, NoColor))
          ELSE AddEdge(g3, Edge(replyn, LastNode(g3), "", EmptyStr, NoColor))

SequenceReply(g, seq, dns, sgIdx, previousNode) ==
  IF ~seq.HasReply THEN g
  ELSE LET g1 == NewNode(g, S("Reply ") \o dns, sgIdx)
           replyn == LastNode(g1)
           g2 == AddEdge(g1, Edge(previousNode, replyn, "", EmptyStr, NoColor))
           rk == gvkKey(seq.ReplyAPIVersion, seq.ReplyKind, seq.ReplyName)
       IN IF rk \in DOMAIN g2.nodes
          THEN AddEdge(g2, Edge(replyn, g2.nodes[rk], "", EmptyStr, NoColor))
          ELSE g2

doAddSequence(g, seq) ==
  LET k == sequenceKey(seq.Name)
      dns == TrimSuffix(seq.Address)
      sgName == ClusterName(g)
      sgIdx == Len(g.gsubs) + 1
      g1 == [g EXCEPT !.dnsToKey = Put(g.dnsToKey, dns, k)]
      g2 == NewNode(g1, S("Sequence ") \o dns, sgIdx)
      sn == LastNode(g2)
      g3 == [g2 EXCEPT !.nodes = Put(g2.nodes, k, sn)]
      l == StepLoop(g3, seq.Name, sgIdx, seq.Steps, 0, sn)
      g4 == SequenceReply(l.g, seq, dns, sgIdx, l.previousNode)
      g5 == [g4 EXCEPT !.subgraphs = Put(g4.subgraphs, k, sgIdx)]
  IN AddSubgraph(g5, sgName, S("Sequence ") \o seq.Name \o S("\n") \o dns)

----------------------------------------------------------------------------
\* The resources a build is fed.

EventingV1 == <<"eventing.knative.dev", "/", "v1alpha1">>
MessagingV1 == <<"messaging.knative.dev", "/", "v1alpha1">>
ServingV1 == <<"serving.knative.dev", "/", "v1beta1">>
SourcesV1 == <<"sources.eventing.knative.dev", "/", "v1alpha1">>

NilSub == [IsNil |-> TRUE, HasURI |-> FALSE, URI |-> EmptyStr, HasRef |-> FALSE,
           APIVersion |-> EmptyStr, Kind |-> EmptyStr, Name |-> EmptyStr]
EmptySub == [NilSub EXCEPT !.IsNil = FALSE]
URISub(u) == [EmptySub EXCEPT !.HasURI = TRUE, !.URI = u]
RefSub(av, kind, name) ==
  [EmptySub EXCEPT !.HasRef = TRUE, !.APIVersion = av, !.Kind = kind, !.Name = name]

BrokerRef == RefSub(EventingV1, S("Broker"), S("a"))
ChannelRef == RefSub(EventingV1, S("Channel"), S("a"))
ServiceRef == RefSub(ServingV1, S("Service"), S("a"))

NilReply == [IsNil |-> TRUE, HasChannel |-> FALSE, ChannelName |-> EmptyStr]
ChannelReply(name) == [IsNil |-> FALSE, HasChannel |-> TRUE, ChannelName |-> name]

Channels ==
  {[Name |-> S("a"), Address |-> S("h")],
   [Name |-> S("a"), Address |-> S("h") \o Slash],
   [Name |-> S("A"), Address |-> S("g")]}

Brokers ==
  {[Name |-> S("a"), Address |-> S("h")],
   [Name |-> S("b"), Address |-> S("g") \o Slash]}

Sources ==
  {[APIVersion |-> SourcesV1, Kind |-> S("CronJobSource"), Name |-> S("a"),
    HasSink |-> TRUE, SinkURI |-> u] :
      u \in {S("h"), S("h") \o Slash, EmptyStr}}
  \cup
  {[APIVersion |-> SourcesV1, Kind |-> S("CronJobSource"), Name |-> S("a"),
    HasSink |-> FALSE, SinkURI |-> EmptyStr]}

Triggers ==
  {[Name |-> S("a"), Broker |-> bs[1], Subscriber |-> bs[2]] :
      bs \in {<<S("a"), NilSub>>, <<S("a"), ServiceRef>>, <<S("b"), BrokerRef>>}}

Subscriptions ==
  {[Name |-> S("a"), ChannelAPIVersion |-> c[1], ChannelKind |-> c[2],
    ChannelName |-> S("a"), Subscriber |-> c[3], Reply |-> c[4]] :
      c \in {<<EventingV1, S("Channel"), NilSub, NilReply>>,
             <<EventingV1, S("Channel"), URISub(S("u")), ChannelReply(S("a"))>>,
             <<MessagingV1, S("InMemoryChannel"), ChannelRef, ChannelReply(S("a"))>>}}

Env(n, v) == [Name |-> n, Value |-> v]

Services ==
  {[Kind |-> S("Service"), Name |-> S("a"), APIVersion |-> ServingV1, Containers |-> cs] :
      cs \in {<<>>, << <<Env("TARGET", S("h") \o Slash)>> >>,
              << <<Env("K", S("x")), Env("SINK", S("g"))>> >>}}

\* Step i of a step list: absent subscriber, URI, reference, in turn.
StepSub(i) ==
  CASE i % 3 = 1 -> EmptySub
    [] i % 3 = 2 -> URISub(S("u"))
    [] OTHER -> ServiceRef

SequenceInputs ==
  {[Name |-> S("a"), Address |-> ar[1], Steps |-> [i \in 1..n |-> StepSub(i)],
    HasReply |-> ar[2], ReplyAPIVersion |-> EventingV1,
    ReplyKind |-> S("Channel"), ReplyName |-> S("a")] :
      n \in {0, MaxSteps}, ar \in {<<S("h") \o Slash, FALSE>>, <<S("g"), TRUE>>}}

----------------------------------------------------------------------------
\* New, and one action per add operation.  calls is the log of the build:
\* the operation, its argument and the size of the document when it began.

Init ==
  /\ nodes = EmptyMap
  /\ subgraphs = EmptyMap
  /\ dnsToKey = EmptyMap
  /\ edgeCount = 0
  /\ rainbowEdge = TRUE
  /\ gnodes = <<>>
  /\ gedges = <<>>
  /\ gsubs = <<>>
  /\ panicked = FALSE
  /\ calls = <<>>

CanCall == ~panicked /\ Len(calls) < MaxOps

Commit(g, panic, op, arg) ==
  /\ nodes' = g.nodes
  /\ subgraphs' = g.subgraphs
  /\ dnsToKey' = g.dnsToKey
  /\ edgeCount' = g.edgeCount
  /\ rainbowEdge' = g.rainbowEdge
  /\ gnodes' = g.gnodes
  /\ gedges' = g.gedges
  /\ gsubs' = g.gsubs
  /\ panicked' = panic
  /\ calls' = Append(calls, [op |-> op, arg |-> arg, nbase |-> Len(gnodes),
                             ebase |-> Len(gedges), sbase |-> Len(gsubs)])

AddChannel(channel) == CanCall /\ Commit(doAddChannel(G, channel), FALSE, "AddChannel", channel)

AddSubscription(subscription) ==
  CanCall /\ Commit(doAddSubscription(G, subscription), FALSE, "AddSubscription", subscription)

AddBroker(broker) == CanCall /\ Commit(doAddBroker(G, broker), FALSE, "AddBroker", broker)

AddSource(source) == CanCall /\ Commit(doAddSource(G, source), FALSE, "AddSource", source)

AddTrigger(trigger) == CanCall /\ Commit(doAddTrigger(G, trigger), FALSE, "AddTrigger", trigger)

AddKnService(service) ==
  /\ CanCall
  /\ LET r == doAddKnService(G, service)
     IN Commit(r.g, r.panic, "AddKnService", service)

AddSequence(seq) == CanCall /\ Commit(doAddSequence(G, seq), FALSE, "AddSequence", seq)

Next ==
  \/ \E channel \in Channels : AddChannel(channel)
  \/ \E subscription \in Subscriptions : AddSubscription(subscription)
  \/ \E broker \in Brokers : AddBroker(broker)
  \/ \E source \in Sources : AddSource(source)
  \/ \E trigger \in Triggers : AddTrigger(trigger)
  \/ \E service \in Services : AddKnService(service)
  \/ \E seq \in SequenceInputs : AddSequence(seq)

Spec == Init /\ [][Next]_vars

----------------------------------------------------------------------------
\* Reading the log: what call i made.

NCalls == Len(calls)
Call(i) == calls[i]
NodeEnd(i) == IF i < NCalls THEN calls[i + 1].nbase ELSE Len(gnodes)
EdgeEnd(i) == IF i < NCalls THEN calls[i + 1].ebase ELSE Len(gedges)
NodesOf(i) == (calls[i].nbase + 1)..NodeEnd(i)
EdgesOf(i) == (calls[i].ebase + 1)..EdgeEnd(i)

HasPrefix(name, tok) == Len(name) >= 1 /\ name[1] = tok
IsUnknownBroker(n) == HasPrefix(gnodes[n].name, "UnknownBroker ")
IsUnknownSink(n) == HasPrefix(gnodes[n].name, "UnknownSink ")
IsUnknownChannel(n) == HasPrefix(gnodes[n].name, "Unknown Channel ")

IsPrefix(s, t) == Len(s) <= Len(t) /\ SubSeq(t, 1, Len(s)) = s

\* The keys an add operation registers unconditionally, for its own resource.
OwnKeys(c) ==
  CASE c.op = "AddChannel" -> {channelKey(c.arg.Name)}
    [] c.op = "AddBroker" -> {brokerKey(c.arg.Name)}
    [] c.op = "AddSubscription" -> {subscriptionKey(c.arg.Name)}
    [] c.op = "AddTrigger" -> {triggerKey(c.arg.Name)}
    [] c.op = "AddSource" -> {gvkKey(c.arg.APIVersion, c.arg.Kind, c.arg.Name)}
    [] c.op = "AddSequence" ->
         {sequenceKey(c.arg.Name)}
         \cup {sequenceStepKey(c.arg.Name, n) : n \in 0..(Len(c.arg.Steps) - 1)}
    [] OTHER -> {}

\* The subscriber resolutions of the build: <<i, n>> is the one of call i,
\* for step n of a sequence and 0 otherwise.
Resolutions ==
  {<<i, 0>> : i \in {x \in 1..NCalls : calls[x].op \in {"AddTrigger", "AddSubscription"}}}
  \cup
  UNION {{<<i, n>> : n \in 0..(Len(calls[i].arg.Steps) - 1)} :
           i \in {x \in 1..NCalls : calls[x].op = "AddSequence"}}

ResolvedSpec(r) ==
  IF calls[r[1]].op = "AddSequence" THEN calls[r[1]].arg.Steps[r[2] + 1]
  ELSE calls[r[1]].arg.Subscriber

\* The subscriber edge is the first edge of a trigger or subscription and
\* the first of the two edges of a step.
ResolvedEdge(r) == gedges[calls[r[1]].ebase + 2 * r[2] + 1]
ResolvedNode(r) == ResolvedEdge(r).dst

Before(r1, r2) == r1[1] < r2[1] \/ (r1[1] = r2[1] /\ r1[2] < r2[2])

\* Keys registered by their owners after resolution r1 and up to r2.
OwnedBetween(r1, r2) ==
  UNION {OwnKeys(calls[m]) : m \in (r1[1] + 1)..r2[1]}
  \cup
  (IF calls[r1[1]].op = "AddSequence"
   THEN {sequenceStepKey(calls[r1[1]].arg.Name, n) :
           n \in (r1[2] + 1)..(Len(calls[r1[1]].arg.Steps) - 1)}
   ELSE {})

----------------------------------------------------------------------------
\* C1 as stated: once a key is in the node index, the node it maps to never
\* changes (at most one node per canonical key in a build).
C1_KeyNeverRemapped ==
  [][\A k \in DOMAIN nodes : k \in DOMAIN nodes' /\ nodes'[k] = nodes[k]]_vars

\* C1, amended: no key leaves the node index, and the node of a key changes
\* only when an add operation that owns the key runs, which maps it to a node
\* it has just created; lookups (subscriber resolution, the broker lookup of
\* AddTrigger, AddKnService) always reuse the registered node.
C1_RemappedOnlyByOwner ==
  [][\A k \in DOMAIN nodes :
       /\ k \in DOMAIN nodes'
       /\ nodes'[k] # nodes[k] =>
            /\ k \in OwnKeys(calls'[Len(calls')])
            /\ nodes'[k] > Len(gnodes)]_vars

\* A trigger added twice: the second call reuses the node registered under
\* the broker key (a lookup) and replaces the one under the trigger key.
C1_Witness ==
  \E i \in 1..NCalls : \E j \in (i + 1)..NCalls :
    /\ calls[i].op = "AddTrigger" /\ calls[j].op = "AddTrigger"
    /\ calls[i].arg.Broker = calls[j].arg.Broker
    /\ calls[i].arg.Name = calls[j].arg.Name
    /\ IsUnknownBroker(calls[i].nbase + 1)
    /\ ~IsUnknownBroker(calls[j].nbase + 1)
    /\ nodes[brokerKey(calls[i].arg.Broker)] = calls[i].nbase + 1
    /\ nodes[triggerKey(calls[j].arg.Name)] = calls[j].nbase + 1

\* C2 as stated: two resolutions of the same subscriber return the same node,
\* whatever runs between them.
C2_SameSubscriberSameNode ==
  \A r1 \in Resolutions : \A r2 \in Resolutions :
    (Before(r1, r2) /\ ResolvedSpec(r1) = ResolvedSpec(r2)
       /\ ~ResolvedSpec(r1).IsNil
       /\ (ResolvedSpec(r1).HasURI \/ ResolvedSpec(r1).HasRef))
    => ResolvedNode(r1) = ResolvedNode(r2)

\* C2, amended: two resolutions of the same subscriber return the same node
\* unless an add operation owning the subscriber's key ran between them.
C2_SameNodeUnlessOwnerRan ==
  \A r1 \in Resolutions : \A r2 \in Resolutions :
    (Before(r1, r2) /\ ResolvedSpec(r1) = ResolvedSpec(r2)
       /\ ~ResolvedSpec(r1).IsNil
       /\ (ResolvedSpec(r1).HasURI \/ ResolvedSpec(r1).HasRef)
       /\ SubscriberKey(ResolvedSpec(r1)) \notin OwnedBetween(r1, r2))
    => ResolvedNode(r1) = ResolvedNode(r2)

\* The same reference resolved by two calls with another call between them.
C2_Witness ==
  \E r1 \in Resolutions : \E r2 \in Resolutions :
    /\ r1[1] + 1 < r2[1]
    /\ ResolvedSpec(r1) = ResolvedSpec(r2)
    /\ ResolvedSpec(r1).HasRef /\ ~ResolvedSpec(r1).HasURI
    /\ SubscriberKey(ResolvedSpec(r1)) \notin OwnedBetween(r1, r2)
    /\ ResolvedNode(r1) = ResolvedNode(r2)

----------------------------------------------------------------------------
\* Resources that register a status address, and the sources that name one.

IsAddressable(c) == c.op \in {"AddChannel", "AddBroker", "AddSequence"}
SinkNamed(c) == c.op = "AddSource" /\ c.arg.HasSink /\ TrimSuffix(c.arg.SinkURI) # EmptyStr

\* The step just taken was the call c; the document before it is unprimed.
JustCalled == calls'[Len(calls')]
NewNodeIdx == (Len(gnodes) + 1)..Len(gnodes')
NewEdgeIdx == (Len(gedges) + 1)..Len(gedges')

\* The key under which an addressable resource registers its address.
AddressKey(c) ==
  CASE c.op = "AddChannel" -> channelKey(c.arg.Name)
    [] c.op = "AddBroker" -> brokerKey(c.arg.Name)
    [] OTHER -> sequenceKey(c.arg.Name)

Owns(c, A) == IsAddressable(c) /\ TrimSuffix(c.arg.Address) = A

\* The last call so far that registered address A.
LastOwner(A) ==
  CHOOSE m \in 1..NCalls :
    Owns(calls[m], A) /\ \A n \in (m + 1)..NCalls : ~Owns(calls[n], A)

\* C3 as stated: once a channel, broker or sequence with address A or A/ was
\* added, AddSource with sink A or A/ adds one edge from the source node to
\* the node registered for that resource, and makes no UnknownSink node.
C3_SinkEdgeToOwnerNode ==
  [][\A i \in 1..NCalls :
       (SinkNamed(JustCalled) /\ Owns(calls[i], TrimSuffix(JustCalled.arg.SinkURI)))
       => /\ Len(gedges') = Len(gedges) + 1
          /\ gedges'[Len(gedges')].src = Len(gnodes) + 1
          /\ gedges'[Len(gedges')].dst = nodes'[AddressKey(calls[i])]
          /\ \A n \in NewNodeIdx : ~HasPrefix(gnodes'[n].name, "UnknownSink ")]_vars

\* C3, amended: the address index is last-writer-wins, so the edge goes to
\* the node registered, when the sink is resolved, under the key of the
\* resource that last registered A (A not empty); no UnknownSink node is made.
C3_SinkEdgeToLastOwner ==
  [][\A i \in 1..NCalls :
       (SinkNamed(JustCalled) /\ Owns(calls[i], TrimSuffix(JustCalled.arg.SinkURI)))
       => LET A == TrimSuffix(JustCalled.arg.SinkURI)
              ownKey == AddressKey(calls[LastOwner(A)])
          IN /\ Len(gedges') = Len(gedges) + 1
             /\ gedges'[Len(gedges')].src = Len(gnodes) + 1
             /\ dnsToKey[A] = ownKey
             /\ gedges'[Len(gedges')].dst = nodes'[ownKey]
             /\ \A n \in NewNodeIdx : ~HasPrefix(gnodes'[n].name, "UnknownSink ")]_vars

\* A source with sink A/ resolved to a channel added with A, or the reverse.
C3_Witness ==
  \E i \in 1..NCalls : \E j \in (i + 1)..NCalls :
    /\ calls[i].op = "AddChannel" /\ SinkNamed(calls[j])
    /\ calls[i].arg.Address # calls[j].arg.SinkURI
    /\ TrimSuffix(calls[i].arg.Address) = TrimSuffix(calls[j].arg.SinkURI)
    /\ EdgesOf(j) # {}
    /\ gedges[calls[j].ebase + 1].dst = calls[i].nbase + 1

\* C4 as stated: with no Broker b added, the triggers referencing b leave
\* exactly one "UnknownBroker b" node in the graph.
C4_OnePlaceholderPerMissingBroker ==
  \A t \in 1..NCalls :
    (calls[t].op = "AddTrigger"
       /\ \A m \in 1..NCalls :
            ~(calls[m].op = "AddBroker" /\ calls[m].arg.Name = calls[t].arg.Broker))
    => Cardinality({n \in 1..Len(gnodes) :
                      gnodes[n].name = S("UnknownBroker ") \o calls[t].arg.Broker
                      /\ gnodes[n].parent = 0}) = 1

\* C4, amended: an AddTrigger that finds no node under the broker key makes
\* exactly one UnknownBroker node and registers it under that key; one that
\* finds a node there (a Broker, a placeholder, or a subscriber or source
\* with that key) makes none; so there is at most one placeholder per key.
C4_PlaceholderIffKeyAbsent ==
  [][JustCalled.op = "AddTrigger" =>
       LET bk == brokerKey(JustCalled.arg.Broker)
           made == {n \in NewNodeIdx : HasPrefix(gnodes'[n].name, "UnknownBroker ")}
       IN /\ bk \notin DOMAIN nodes =>
               /\ made = {Len(gnodes) + 1}
               /\ gnodes'[Len(gnodes) + 1] =
                    [name |-> S("UnknownBroker ") \o JustCalled.arg.Broker, parent |-> 0]
               /\ bk \in DOMAIN nodes'
               /\ nodes'[bk] = Len(gnodes) + 1
          /\ bk \in DOMAIN nodes => made = {} /\ nodes'[bk] = nodes[bk]
          /\ \A n1 \in 1..Len(gnodes') : \A n2 \in 1..Len(gnodes') :
               (HasPrefix(gnodes'[n1].name, "UnknownBroker ")
                  /\ HasPrefix(gnodes'[n2].name, "UnknownBroker ")
                  /\ brokerKey(Tail(gnodes'[n1].name)) = brokerKey(Tail(gnodes'[n2].name)))
               => n1 = n2]_vars

\* Three triggers on a broker that was never added: one placeholder.
C4_Witness ==
  /\ NCalls = 3
  /\ \A i \in 1..NCalls : calls[i].op = "AddTrigger" /\ calls[i].arg.Broker = S("a")
  /\ Cardinality({n \in 1..Len(gnodes) : IsUnknownBroker(n)}) = 1
  /\ IsUnknownBroker(nodes[brokerKey(S("a"))])

IsAbsent(sub) == sub.IsNil \/ (~sub.HasURI /\ ~sub.HasRef)

\* C5: every resolution of an absent subscriber (nil, or with neither URI
\* nor reference) returns the node registered under "?", and the graph
\* never holds more than one "?" node.
C5_SingleUnknownSubscriber ==
  /\ Cardinality({n \in 1..Len(gnodes) : gnodes[n].name = S("?")}) <= 1
  /\ \A r \in Resolutions :
       IsAbsent(ResolvedSpec(r))
       => /\ UnknownKey \in DOMAIN nodes
          /\ ResolvedNode(r) = nodes[UnknownKey]
          /\ ResolvedEdge(r).src \in NodesOf(r[1])
          /\ gnodes[nodes[UnknownKey]] = [name |-> S("?"), parent |-> 0]

\* A nil subscriber and an empty one, from two kinds of resource.
C5_Witness ==
  \E r1 \in Resolutions : \E r2 \in Resolutions :
    /\ r1[1] < r2[1]
    /\ calls[r1[1]].op # calls[r2[1]].op
    /\ ResolvedSpec(r1).IsNil
    /\ ~ResolvedSpec(r2).IsNil
    /\ IsAbsent(ResolvedSpec(r2))
    /\ ResolvedNode(r1) = ResolvedNode(r2)

----------------------------------------------------------------------------
\* Sequences.

\* The node made for step n of the sequence added by call i.
StepNode(i, n) ==
  CHOOSE x \in NodesOf(i) :
    gnodes[x].name = sequenceStepKey(calls[i].arg.Name, n)

StartNode(i) == calls[i].nbase + 1

RECURSIVE Pick(_, _, _)
Pick(from, to, keep) ==
  IF from > to THEN <<>>
  ELSE (IF keep[from] THEN <<gedges[from]>> ELSE <<>>) \o Pick(from + 1, to, keep)

\* The edges of call i that lead from Start or a step to a step, in the
\* order in which they were appended.
ChainEdges(i) ==
  LET steps == {StepNode(i, n) : n \in 0..(Len(calls[i].arg.Steps) - 1)}
      keep == [e \in EdgesOf(i) |->
                 /\ gedges[e].dir = ""
                 /\ gedges[e].src \in steps \cup {StartNode(i)}
                 /\ gedges[e].dst \in steps]
  IN Pick(calls[i].ebase + 1, EdgeEnd(i), keep)

\* C6: the chain edges of a sequence are Start->step0, step0->step1, ...,
\* each once and in increasing step order.
C6_ChainInStepOrder ==
  \A i \in 1..NCalls :
    calls[i].op = "AddSequence"
    => LET n == Len(calls[i].arg.Steps)
       IN /\ \A k \in 0..(n - 1) :
               Cardinality({x \in NodesOf(i) :
                  gnodes[x].name = sequenceStepKey(calls[i].arg.Name, k)}) = 1
          /\ ChainEdges(i) =
               [k \in 1..n |->
                  Edge(IF k = 1 THEN StartNode(i) ELSE StepNode(i, k - 2),
                       StepNode(i, k - 1), "", EmptyStr, NoColor)]

\* A sequence with at least two steps was added.
C6_Witness ==
  \E i \in 1..NCalls :
    /\ calls[i].op = "AddSequence"
    /\ Len(calls[i].arg.Steps) >= 2
    /\ Len(ChainEdges(i)) = Len(calls[i].arg.Steps)

\* C7: AddSubscription with a reply channel under whose key no node is
\* registered when the reply is resolved adds no reply edge, no
\* "Unknown Channel" node to the document and no entry under that key; with
\* a node registered there it adds exactly one forward edge to that node.
C7_ReplyEdgeOnlyIfRegistered ==
  [][(JustCalled.op = "AddSubscription" /\ ~JustCalled.arg.Reply.IsNil
        /\ JustCalled.arg.Reply.HasChannel) =>
       LET ck == channelKey(JustCalled.arg.Reply.ChannelName)
           sn == Len(gnodes) + 1
           fwd == {e \in NewEdgeIdx : gedges'[e].dir = "forward"}
           registered == ck \in DOMAIN nodes
                         \/ ck = SubscriberKey(JustCalled.arg.Subscriber)
       IN /\ ~panicked'
          /\ ~registered =>
               /\ fwd = {}
               /\ Len(gedges') = Len(gedges) + 1
               /\ ck \notin DOMAIN nodes'
               /\ \A n \in 1..Len(gnodes') :
                    HasPrefix(gnodes'[n].name, "Unknown Channel ")
                    => gnodes'[n].parent = 0 - 1
          /\ registered =>
               /\ fwd = {Len(gedges')}
               /\ Len(gedges') = Len(gedges) + 2
               /\ gedges'[Len(gedges')].src = sn
               /\ gedges'[Len(gedges')].dst = nodes'[ck]]_vars

\* Both cases: a reply to a channel that was added, and to one that was not.
C7_Witness ==
  \E i \in 1..NCalls : \E j \in 1..NCalls :
    /\ calls[i].op = "AddSubscription" /\ calls[j].op = "AddSubscription"
    /\ calls[i].arg.Reply.HasChannel /\ calls[j].arg.Reply.HasChannel
    /\ Cardinality(EdgesOf(i)) = 1
    /\ Cardinality(EdgesOf(j)) = 2
    /\ gedges[calls[j].ebase + 2].dir = "forward"
    /\ \E n \in NodesOf(i) : IsUnknownChannel(n)

\* C8 as stated: no add operation aborts, whatever its input.
C8_NoAbort == ~panicked

\* C9: a later add of the real resource merges nothing.  A placeholder made
\* for a broker stays at top level and is no longer what the broker key
\* maps to; a trigger added before its broker stays at top level, one added
\* after it sits in the cluster of the last broker added under the key; the
\* edge of a source added before the owner of its sink still leads to its
\* UnknownSink node, that of a source added after leads to a registered node.
C9_NeverRetroactive ==
  /\ \A i \in 1..NCalls : \A j \in (i + 1)..NCalls :
       (calls[i].op = "AddTrigger" /\ calls[j].op = "AddBroker"
          /\ brokerKey(calls[i].arg.Broker) = brokerKey(calls[j].arg.Name)
          /\ \A m \in 1..(i - 1) :
               ~(calls[m].op = "AddBroker"
                   /\ brokerKey(calls[m].arg.Name) = brokerKey(calls[j].arg.Name)))
       => LET first == calls[i].nbase + 1
              tn == IF IsUnknownBroker(first) THEN first + 1 ELSE first
          IN /\ gnodes[tn] = [name |-> S("Trigger ") \o calls[i].arg.Name, parent |-> 0]
             /\ IsUnknownBroker(first) =>
                  /\ gnodes[first].parent = 0
                  /\ nodes[brokerKey(calls[j].arg.Name)] # first
                  /\ gnodes[calls[j].nbase + 1].name # gnodes[first].name
  /\ \A j \in 1..NCalls : \A k \in (j + 1)..NCalls :
       (calls[j].op = "AddBroker" /\ calls[k].op = "AddTrigger"
          /\ brokerKey(calls[k].arg.Broker) = brokerKey(calls[j].arg.Name)
          /\ \A m \in (j + 1)..(k - 1) :
               ~(calls[m].op = "AddBroker"
                   /\ brokerKey(calls[m].arg.Name) = brokerKey(calls[j].arg.Name)))
       => gnodes[calls[k].nbase + 1] =
            [name |-> S("Trigger ") \o calls[k].arg.Name, parent |-> calls[j].sbase + 1]
  /\ \A i \in 1..NCalls : \A j \in 1..NCalls :
       (SinkNamed(calls[i]) /\ Owns(calls[j], TrimSuffix(calls[i].arg.SinkURI)))
       => LET e == gedges[calls[i].ebase + 1]
          IN /\ EdgesOf(i) = {calls[i].ebase + 1}
             /\ e.src = calls[i].nbase + 1
             /\ (\A m \in 1..(i - 1) : ~Owns(calls[m], TrimSuffix(calls[i].arg.SinkURI)))
                  => /\ e.dst = calls[i].nbase + 2
                     /\ gnodes[e.dst] = [name |-> S("UnknownSink ")
                                           \o TrimSuffix(calls[i].arg.SinkURI),
                                         parent |-> 0]
                     /\ \A k \in DOMAIN nodes : nodes[k] # e.dst
             /\ (\E m \in 1..(i - 1) : Owns(calls[m], TrimSuffix(calls[i].arg.SinkURI)))
                  => /\ ~IsUnknownSink(e.dst)
                     /\ NodesOf(i) = {calls[i].nbase + 1}

\* A source and a trigger made their placeholders, then the broker that
\* owns both the name and the address was added.
C9_Witness ==
  /\ NCalls = 3
  /\ \E i \in 1..2 : SinkNamed(calls[i]) /\ IsUnknownSink(calls[i].nbase + 2)
                     /\ Owns(calls[3], TrimSuffix(calls[i].arg.SinkURI))
  /\ \E i \in 1..2 : calls[i].op = "AddTrigger" /\ IsUnknownBroker(calls[i].nbase + 1)
                     /\ calls[3].op = "AddBroker"
                     /\ calls[3].arg.Name = calls[i].arg.Broker
  /\ gnodes[calls[3].nbase + 1].parent = 1

\* C10: the document only grows and making an edge touches no index.  A
\* step keeps every node, edge and subgraph where it was; a step that makes
\* no node (only edges) leaves the three indexes alone; the node index
\* changes only towards nodes made in the step; newEdge and AddEdge applied
\* to the builder change nothing but the edge list and the edge counter.
C10_OnlyGrows ==
  [][/\ IsPrefix(gedges, gedges')
     /\ IsPrefix(gnodes, gnodes')
     /\ IsPrefix(gsubs, gsubs')
     /\ Len(gnodes') = Len(gnodes) =>
          nodes' = nodes /\ subgraphs' = subgraphs /\ dnsToKey' = dnsToKey
     /\ \A k \in DOMAIN nodes' :
          (k \notin DOMAIN nodes \/ nodes'[k] # nodes[k]) => nodes'[k] \in NewNodeIdx
     /\ LET r == newEdge(G, 1, 1, "forward")
            h == AddEdge(r.g, r.e)
        IN /\ h.nodes = nodes /\ h.subgraphs = subgraphs /\ h.dnsToKey = dnsToKey
           /\ h.gnodes = gnodes /\ h.gsubs = gsubs
           /\ h.gedges = Append(gedges, r.e)]_vars

\* A service added again makes edges only: the indexes stay as they were.
C10_Witness ==
  \E i \in 1..NCalls :
    /\ calls[i].op = "AddKnService"
    /\ NodesOf(i) = {}
    /\ EdgesOf(i) # {}
    /\ ~panicked

----------------------------------------------------------------------------
\* Services.

SinkEnvCount(service) ==
  IF Len(service.Containers) = 0 THEN 0
  ELSE Cardinality({n \in 1..Len(service.Containers[1]) :
                      service.Containers[1][n].Name \in {"SINK", "TARGET"}})

InDocument(n) == n \in 1..Len(gnodes) /\ gnodes[n].parent >= 0

\* C11 as stated: AddKnService adds one edge per SINK or TARGET variable,
\* from the service node to a node of the graph: a registered node on a hit
\* of the address index, the new UnknownSink node on a miss; never nil.
C11_SinkEdgeHasTarget ==
  \A i \in 1..NCalls :
    (calls[i].op = "AddKnService" /\ Len(calls[i].arg.Containers) > 0)
    => /\ Cardinality(EdgesOf(i)) = SinkEnvCount(calls[i].arg)
       /\ \A e \in EdgesOf(i) :
            /\ gedges[e].src = nodes[servingKey(calls[i].arg.Kind, calls[i].arg.Name)]
            /\ InDocument(gedges[e].dst)
            /\ \/ \E k \in DOMAIN nodes : nodes[k] = gedges[e].dst
               \/ gedges[e].dst \in NodesOf(i) /\ IsUnknownSink(gedges[e].dst)

----------------------------------------------------------------------------
\* Subscriptions.

\* C12 as stated: the subscription node sits in the cluster of the channel
\* its reference names whenever AddChannel added that channel earlier,
\* whatever group, version and kind the reference carries, and at top level
\* otherwise.
C12_InClusterOfNamedChannel ==
  \A j \in 1..NCalls :
    calls[j].op = "AddSubscription"
    => LET added == {i \in 1..(j - 1) :
                       /\ calls[i].op = "AddChannel"
                       /\ channelKey(calls[i].arg.Name) = channelKey(calls[j].arg.ChannelName)}
           sn == calls[j].nbase + 1
       IN /\ added # {} => \E i \in added : gnodes[sn].parent = calls[i].sbase + 1
          /\ added = {} => gnodes[sn].parent = 0

\* C12, amended: the subscription node sits in the cluster registered under
\* the group/version/kind/name key of its channel reference, which is the
\* cluster of a channel added by AddChannel only for a reference of group
\* eventing.knative.dev, version v1alpha1 and kind Channel; with no cluster
\* under that key it sits at top level.  It is registered under the
\* subscription key in both cases.
C12_InClusterOfReferenceKey ==
  [][JustCalled.op = "AddSubscription" =>
       LET sub == JustCalled.arg
           sn == Len(gnodes) + 1
           isChannelRef == /\ ToLower(sub.ChannelAPIVersion) = EventingV1
                           /\ ToLower(sub.ChannelKind) = S("channel")
           ck == channelKey(sub.ChannelName)
       IN /\ gnodes'[sn].name = S("Subscription ") \o sub.Name
          /\ subscriptionKey(sub.Name) \in DOMAIN nodes'
          /\ nodes'[subscriptionKey(sub.Name)] = sn
          /\ (isChannelRef /\ ck \in DOMAIN subgraphs)
               => gnodes'[sn].parent = subgraphs[ck]
          /\ (isChannelRef /\ ck \notin DOMAIN subgraphs) => gnodes'[sn].parent = 0
          /\ (~isChannelRef /\ sub.ChannelKind = S("InMemoryChannel"))
               => gnodes'[sn].parent = 0]_vars

\* A channel was added, then a subscription with a Channel reference to it
\* (inside the cluster) and one with an InMemoryChannel reference (top level).
C12_Witness ==
  /\ NCalls = 3
  /\ calls[1].op = "AddChannel" /\ calls[1].arg.Name = S("a")
  /\ \E i \in 2..3 : /\ calls[i].op = "AddSubscription"
                     /\ calls[i].arg.ChannelKind = S("Channel")
                     /\ gnodes[calls[i].nbase + 1].parent = 1
  /\ \E i \in 2..3 : /\ calls[i].op = "AddSubscription"
                     /\ calls[i].arg.ChannelKind = S("InMemoryChannel")
                     /\ gnodes[calls[i].nbase + 1].parent = 0

----------------------------------------------------------------------------
\* Sources.

SinkOf(source) == IF source.HasSink THEN TrimSuffix(source.SinkURI) ELSE EmptyStr

\* C13: AddSource writes the node index at the source's own key only and
\* leaves the address index and the subgraph index alone.  With a non-empty
\* sink it adds one edge source -> target, the target on an address-index
\* miss being a new UnknownSink node registered under no key; with an
\* absent or empty sink it adds neither an edge nor a placeholder.
C13_SourceFrame ==
  [][JustCalled.op = "AddSource" =>
       LET source == JustCalled.arg
           k == gvkKey(source.APIVersion, source.Kind, source.Name)
           sn == Len(gnodes) + 1
           sink == SinkOf(source)
       IN /\ dnsToKey' = dnsToKey
          /\ subgraphs' = subgraphs
          /\ DOMAIN nodes' = DOMAIN nodes \cup {k}
          /\ \A x \in DOMAIN nodes \ {k} : nodes'[x] = nodes[x]
          /\ nodes'[k] = sn
          /\ sink = EmptyStr
               => /\ gedges' = gedges
                  /\ Len(gnodes') = sn
          /\ (sink # EmptyStr /\ sink \notin DOMAIN dnsToKey)
               => /\ Len(gnodes') = sn + 1
                  /\ gnodes'[sn + 1] = [name |-> S("UnknownSink ") \o sink, parent |-> 0]
                  /\ \A x \in DOMAIN nodes' : nodes'[x] # sn + 1
                  /\ Len(gedges') = Len(gedges) + 1
                  /\ gedges'[Len(gedges')].src = sn
                  /\ gedges'[Len(gedges')].dst = sn + 1
          /\ (sink # EmptyStr /\ sink \in DOMAIN dnsToKey)
               => /\ Len(gnodes') = sn
                  /\ Len(gedges') = Len(gedges) + 1
                  /\ gedges'[Len(gedges')].src = sn
                  /\ gedges'[Len(gedges')].dst = nodes'[dnsToKey[sink]]]_vars

\* Two sources with the same unresolved sink, each with its own placeholder,
\* then a source without a sink that added one node and no edge.
C13_Witness ==
  /\ NCalls = 3
  /\ \A i \in 1..2 : /\ SinkNamed(calls[i])
                     /\ SinkOf(calls[i].arg) = S("h")
                     /\ Cardinality(EdgesOf(i)) = 1
                     /\ \A e \in EdgesOf(i) : /\ gedges[e].dst \in NodesOf(i)
                                              /\ IsUnknownSink(gedges[e].dst)
  /\ calls[3].op = "AddSource" /\ ~calls[3].arg.HasSink
  /\ Cardinality(NodesOf(3)) = 1 /\ EdgesOf(3) = {}
  /\ Cardinality({n \in 1..Len(gnodes) : IsUnknownSink(n)}) = 2

----------------------------------------------------------------------------
\* Sequence replies.

IsPlaceholderName(name) ==
  \/ HasPrefix(name, "UnknownSink ")
  \/ HasPrefix(name, "UnknownBroker ")
  \/ HasPrefix(name, "Unknown Channel ")

\* C14: a sequence with a reply target gets one Reply node inside its
\* cluster, registered under no key; after all step edges one edge leads
\* from the last step (from Start when there are no steps) to Reply, and an
\* edge Reply -> target follows iff a node is registered under the
\* group/version/kind/name key of the reply reference when the reply is
\* resolved; no placeholder is made otherwise.  A sequence without a reply
\* target gets no Reply node and none of these edges.
C14_SequenceReply ==
  [][JustCalled.op = "AddSequence" =>
       LET seq == JustCalled.arg
           n == Len(seq.Steps)
           start == Len(gnodes) + 1
           last == IF n = 0 THEN start
                   ELSE CHOOSE x \in NewNodeIdx :
                          gnodes'[x].name = sequenceStepKey(seq.Name, n - 1)
           replies == {x \in NewNodeIdx : HasPrefix(gnodes'[x].name, "Reply ")}
           replyn == Len(gnodes')
           rk == gvkKey(seq.ReplyAPIVersion, seq.ReplyKind, seq.ReplyName)
           registered == rk \in DOMAIN nodes'
           e0 == Len(gedges) + 2 * n
       IN /\ ~seq.HasReply => (replies = {} /\ Len(gedges') = e0)
          /\ seq.HasReply
               => /\ replies = {replyn}
                  /\ gnodes'[replyn] = [name |-> S("Reply ") \o TrimSuffix(seq.Address),
                                        parent |-> Len(gsubs) + 1]
                  /\ \A x \in DOMAIN nodes' : nodes'[x] # replyn
                  /\ \A x \in NewNodeIdx : ~IsPlaceholderName(gnodes'[x].name)
                  /\ Len(gedges') = e0 + (IF registered THEN 2 ELSE 1)
                  /\ gedges'[e0 + 1].src = last /\ gedges'[e0 + 1].dst = replyn
                  /\ registered => /\ gedges'[e0 + 2].src = replyn
                                   /\ gedges'[e0 + 2].dst = nodes'[rk]]_vars

\* A sequence without steps whose reply target is unknown (edge Start ->
\* Reply only), the channel, then a sequence with steps whose reply target
\* is registered (edges last step -> Reply -> channel).
C14_Witness ==
  /\ NCalls = 3
  /\ calls[1].op = "AddSequence" /\ calls[1].arg.HasReply
  /\ calls[1].arg.Steps = <<>>
  /\ Cardinality(EdgesOf(1)) = 1
  /\ gedges[1].src = StartNode(1) /\ gedges[1].dst = NodeEnd(1)
  /\ calls[2].op = "AddChannel" /\ calls[2].arg.Name = S("a")
  /\ calls[3].op = "AddSequence" /\ calls[3].arg.HasReply
  /\ Len(calls[3].arg.Steps) = MaxSteps
  /\ gedges[Len(gedges)].src = Len(gnodes)
  /\ gedges[Len(gedges)].dst = nodes[channelKey(S("a"))]
  /\ gedges[Len(gedges) - 1].src = StepNode(3, MaxSteps - 1)
  /\ gedges[Len(gedges) - 1].dst = Len(gnodes)

----------------------------------------------------------------------------
\* One node per service.

IsServiceRef(sub) ==
  /\ ~sub.IsNil /\ ~sub.HasURI /\ sub.HasRef
  /\ sub.APIVersion = ServingV1 /\ sub.Kind = S("Service")

ServiceLabel(name) ==
  name \o S("\nKind: ") \o S("Service") \o S("\n") \o ServingV1

\* The names of the services met so far, by AddKnService or by reference.
ServiceNames ==
  {calls[i].arg.Name : i \in {x \in 1..NCalls :
      calls[x].op = "AddKnService" /\ calls[x].arg.Kind = S("Service")}}
  \cup
  {ResolvedSpec(r).Name : r \in {x \in Resolutions : IsServiceRef(ResolvedSpec(x))}}

\* C15: a serving.knative.dev/v1beta1 Service n has one node, registered
\* under the service key: every AddKnService(n) and every resolution of a
\* subscriber reference to it, in either order and however often, use that
\* node, as the source of the service's SINK/TARGET edges and as the target
\* of the subscriber edges.
C15_OneServiceNode ==
  \A name \in ServiceNames :
    LET k == servingKey(S("Service"), name)
        made == {n \in 1..Len(gnodes) : gnodes[n].name = ServiceLabel(name)}
    IN /\ Cardinality(made) = 1
       /\ k \in DOMAIN nodes
       /\ nodes[k] \in made
       /\ \A r \in Resolutions :
            (IsServiceRef(ResolvedSpec(r)) /\ ResolvedSpec(r).Name = name)
            => ResolvedNode(r) = nodes[k]
       /\ \A i \in 1..NCalls :
            (/\ calls[i].op = "AddKnService"
             /\ calls[i].arg.Kind = S("Service")
             /\ calls[i].arg.Name = name)
            => \A e \in EdgesOf(i) : gedges[e].src = nodes[k]

\* The service, a trigger whose subscriber is a reference to it, and the
\* service again: three edges on the single service node.
C15_Witness ==
  /\ NCalls = 3
  /\ calls[1].op = "AddKnService" /\ EdgesOf(1) # {}
  /\ calls[2].op = "AddTrigger" /\ IsServiceRef(calls[2].arg.Subscriber)
  /\ calls[3].op = "AddKnService" /\ EdgesOf(3) # {}
  /\ calls[3].arg.Containers # calls[1].arg.Containers
  /\ ResolvedNode(<<2, 0>>) = 1
  /\ \A e \in EdgesOf(1) \cup EdgesOf(3) : gedges[e].src = 1

----------------------------------------------------------------------------
\* Edge colours.

\* C16 as stated: with rainbow styling the edge counter equals the number
\* of edges of the graph, and the k-th edge created (from 0) has the colour
\* k mod the palette length.
C16_CounterCountsEdges ==
  rainbowEdge
  => /\ edgeCount = Len(gedges)
     /\ \A k \in 1..Len(gedges) : gedges[k].color = (k - 1) % NumColors

----------------------------------------------------------------------------
\* The address index.

\* C17: every key held by the address index is registered in the node
\* index with a node of the document, so getOrCreateSink returns that node
\* on every hit and creates nothing.
C17_AddressResolves ==
  \A a \in DOMAIN dnsToKey :
    /\ dnsToKey[a] \in DOMAIN nodes
    /\ nodes[dnsToKey[a]] \in 1..Len(gnodes)
    /\ getOrCreateSink(G, a).node = nodes[dnsToKey[a]]
    /\ getOrCreateSink(G, a).g = G

\* A channel and a sequence hold one address each, and a source whose sink
\* is the channel's address got its edge to the channel node.
C17_Witness ==
  /\ NCalls = 3
  /\ calls[1].op = "AddChannel" /\ calls[2].op = "AddSequence"
  /\ Cardinality(DOMAIN dnsToKey) = 2
  /\ SinkNamed(calls[3])
  /\ SinkOf(calls[3].arg) \in DOMAIN dnsToKey
  /\ Cardinality(NodesOf(3)) = 1
  /\ gedges[Len(gedges)].dst = nodes[channelKey(calls[1].arg.Name)]

----------------------------------------------------------------------------
\* Subscriber edges.

SubscriberSpecs ==
  {NilSub, EmptySub, URISub(S("u")), URISub(S("v")), BrokerRef, ChannelRef, ServiceRef,
   RefSub(MessagingV1, S("Sequence"), S("a"))}

\* C18: getOrCreateSubscriber returns a node for every subscriber spec in
\* every state; so a trigger has exactly one edge, to its subscriber, a
\* subscription has its subscriber edge and at most one reply edge, and a
\* sequence step has two edges, step -> subscriber and then previous -> step.
C18_SubscriberNeverNil ==
  /\ \A sub \in SubscriberSpecs :
       LET r == getOrCreateSubscriber(G, sub)
       IN r.node \in 1..Len(r.g.gnodes)
  /\ \A i \in 1..NCalls :
       LET first == calls[i].ebase + 1
           made == Cardinality(EdgesOf(i))
       IN /\ calls[i].op = "AddTrigger"
               => /\ made = 1
                  /\ gnodes[gedges[first].src].name = S("Trigger ") \o calls[i].arg.Name
                  /\ gedges[first].dir = "both"
                  /\ gedges[first].dst \in 1..Len(gnodes)
          /\ calls[i].op = "AddSubscription"
               => /\ made \in {1, 2}
                  /\ gedges[first].src = calls[i].nbase + 1
                  /\ gedges[first].dir = "both"
                  /\ gedges[first].dst \in 1..Len(gnodes)
                  /\ made = 2 => /\ gedges[first + 1].src = calls[i].nbase + 1
                                 /\ gedges[first + 1].dir = "forward"
          /\ calls[i].op = "AddSequence"
               => /\ made >= 2 * Len(calls[i].arg.Steps)
                  /\ \A n \in 0..(Len(calls[i].arg.Steps) - 1) :
                       /\ gedges[first + 2 * n].src = StepNode(i, n)
                       /\ gedges[first + 2 * n].dir = "both"
                       /\ gedges[first + 2 * n].dst \in 1..Len(gnodes)
                       /\ gedges[first + 2 * n + 1].dst = StepNode(i, n)
                       /\ gedges[first + 2 * n + 1].src =
                            (IF n = 0 THEN StartNode(i) ELSE StepNode(i, n - 1))

\* A trigger and a subscription with nil subscribers and a sequence whose
\* first step has an empty one: each got its subscriber edge, all to the
\* one "?" node.
C18_Witness ==
  /\ NCalls = 3
  /\ calls[1].op = "AddTrigger" /\ calls[1].arg.Subscriber.IsNil
  /\ calls[2].op = "AddSubscription" /\ calls[2].arg.Subscriber.IsNil
  /\ calls[3].op = "AddSequence" /\ Len(calls[3].arg.Steps) = MaxSteps
  /\ Cardinality(EdgesOf(1)) = 1 /\ Cardinality(EdgesOf(2)) = 1
  /\ Cardinality(EdgesOf(3)) = 2 * MaxSteps
  /\ gnodes[gedges[1].dst].name = S("?")
  /\ gedges[2].dst = gedges[1].dst
  /\ gedges[3].dst = gedges[1].dst

----------------------------------------------------------------------------
\* Cluster names.

\* C19 as stated: no two subgraphs of the document have the same name.
C19_ClusterNamesUnique ==
  \A i, j \in 1..Len(gsubs) : i # j => gsubs[i].name # gsubs[j].name

====
